---- MODULE Spec2Model ----
(***************************************************************************)
(* Model of src/server.js: the wishlist backend.                           *)
(*                                                                         *)
(*   - the Session Verifier, verifyInitData, as a pure function of the raw *)
(*     initData string (SpecVerify);                                       *)
(*   - the Source Dispatcher and the extraction strategies of /api/parse   *)
(*     (SpecParse);                                                        *)
(*   - the four request handlers running concurrently against the external *)
(*     data store: every await of a handler is a separate step (Spec).     *)
(*                                                                         *)
(* Strings are sequences of characters, a character being a one-character  *)
(* TLA+ string, ordered by its UTF-16 code unit.                           *)
(***************************************************************************)
EXTENDS Integers, Sequences, FiniteSets, TLC

(***************************************************************************)
(* Characters and strings                                                  *)
(***************************************************************************)
\* The printable ASCII characters, code units 32..126, in code-unit order (the
\* grave accent, which a TLA+ string cannot hold, by its code point).
Printable ==
  << " ", "!", "\"", "#", "$", "%", "&", "'", "(", ")", "*", "+", ",", "-", ".", "/",
     "0", "1", "2", "3", "4", "5", "6", "7", "8", "9", ":", ";", "<", "=", ">", "?",
     "@", "A", "B", "C", "D", "E", "F", "G", "H", "I", "J", "K", "L", "M", "N", "O",
     "P", "Q", "R", "S", "T", "U", "V", "W", "X", "Y", "Z", "[", "\\", "]", "^", "_",
     "U+0060", "a", "b", "c", "d", "e", "f", "g", "h", "i", "j", "k", "l", "m", "n", "o",
     "p", "q", "r", "s", "t", "u", "v", "w", "x", "y", "z", "{", "|", "}", "~" >>

\* U+FFFD, what a UTF-8 decoder emits for a byte sequence that is not UTF-8.
Replacement == "U+FFFD"

\* The code unit of each character of the alphabet.
CodeTable ==
  [c \in {Printable[i] : i \in 1..Len(Printable)} |->
     31 + (CHOOSE i \in 1..Len(Printable) : Printable[i] = c)]

\* The code unit of a character.
Code(c) ==
  IF c = "\n" THEN 10
  ELSE IF c = Replacement THEN 65533
  ELSE CodeTable[c]

\* The character of a byte; bytes outside the modelled alphabet (line feed and
\* printable ASCII) are not told apart.
CharOf(n) ==
  IF n = 10 THEN "\n"
  ELSE IF n >= 32 /\ n <= 126 THEN Printable[n - 31]
  ELSE Replacement

HexDigits == <<"0","1","2","3","4","5","6","7","8","9","a","b","c","d","e","f">>
UpperHex == <<"0","1","2","3","4","5","6","7","8","9","A","B","C","D","E","F">>

IsHex(c) == \E i \in 1..16 : HexDigits[i] = c \/ UpperHex[i] = c
HexVal(c) == (CHOOSE i \in 1..16 : HexDigits[i] = c \/ UpperHex[i] = c) - 1

\* a < b in the order of the comparison of JavaScript strings (by code unit).
StrLess(a, b) ==
  LET n == IF Len(a) < Len(b) THEN Len(a) ELSE Len(b)
      differ == {i \in 1..n : a[i] # b[i]}
  IN  IF differ = {} THEN Len(a) < Len(b)
      ELSE LET i == CHOOSE d \in differ : \A e \in differ : d <= e
           IN  Code(a[i]) < Code(b[i])

\* s.includes(sub)
Includes(s, sub) ==
  \E i \in 1..(Len(s) - Len(sub) + 1) : SubSeq(s, i, i + Len(sub) - 1) = sub

\* parts.join(sep)
RECURSIVE Join(_, _)
Join(parts, sep) ==
  IF parts = <<>> THEN <<>>
  ELSE IF Len(parts) = 1 THEN parts[1]
  ELSE parts[1] \o sep \o Join(Tail(parts), sep)

\* s.split(sep) for a one-character separator.
RECURSIVE Split(_, _)
Split(s, sep) ==
  IF \A i \in 1..Len(s) : s[i] # sep THEN <<s>>
  ELSE LET i == CHOOSE k \in 1..Len(s) : s[k] = sep /\ \A j \in 1..(k-1) : s[j] # sep
       IN  <<SubSeq(s, 1, i - 1)>> \o Split(SubSeq(s, i + 1, Len(s)), sep)

\* Array.prototype.sort() without a comparator, on an array of strings: insertion
\* of each element into the sorted rest.
RECURSIVE InsertSorted(_, _)
InsertSorted(x, sorted) ==
  IF sorted = <<>> THEN <<x>>
  ELSE IF StrLess(sorted[1], x) THEN <<sorted[1]>> \o InsertSorted(x, Tail(sorted))
  ELSE <<x>> \o sorted

RECURSIVE Sort(_)
Sort(arr) == IF arr = <<>> THEN <<>> ELSE InsertSorted(Head(arr), Sort(Tail(arr)))

(***************************************************************************)
(* JavaScript values                                                       *)
(***************************************************************************)
JNull == [t |-> "null"]
JUndefined == [t |-> "undefined"]
JBool(b) == [t |-> "bool", b |-> b]
JNum(n) == [t |-> "num", n |-> n]
JStr(s) == [t |-> "str", s |-> s]
\* An object: its members as <<key, value>> pairs in source order.
JObj(m) == [t |-> "obj", m |-> m]
\* A raised exception.
Thrown(name) == [t |-> "throw", e |-> name]

IsThrown(v) == v.t = "throw"

\* ToBoolean(v)
Truthy(v) ==
  CASE v.t = "null" -> FALSE
    [] v.t = "undefined" -> FALSE
    [] v.t = "bool" -> v.b
    [] v.t = "num" -> v.n # 0
    [] v.t = "str" -> v.s # <<>>
    [] OTHER -> TRUE

\* v.key (a throw on null and undefined, undefined where there is no such member;
\* of a repeated key JSON.parse keeps the last).
GetProp(v, key) ==
  IF v.t \in {"null", "undefined"} THEN Thrown("TypeError")
  ELSE IF v.t # "obj" THEN JUndefined
  ELSE IF \E i \in 1..Len(v.m) : v.m[i][1] = key
       THEN v.m[CHOOSE i \in 1..Len(v.m) :
                   v.m[i][1] = key /\ \A j \in (i+1)..Len(v.m) : v.m[j][1] # key][2]
       ELSE JUndefined

\* v?.key
OptProp(v, key) == IF v.t \in {"null", "undefined"} THEN JUndefined ELSE GetProp(v, key)

(***************************************************************************)
(* JSON.parse, for the grammar: null, true, false, non-negative integers,  *)
(* strings without escapes, and objects of these; blanks between tokens.   *)
(* Any other text is a SyntaxError.                                        *)
(***************************************************************************)
IsDigit(c) == c \in {"0","1","2","3","4","5","6","7","8","9"}
IsBlank(c) == c \in {" ", "\n"}

RECURSIVE SkipBlanks(_, _)
SkipBlanks(s, i) == IF i <= Len(s) /\ IsBlank(s[i]) THEN SkipBlanks(s, i + 1) ELSE i

\* The first index >= i of s that holds no digit.
RECURSIVE DigitsEnd(_, _)
DigitsEnd(s, i) == IF i <= Len(s) /\ IsDigit(s[i]) THEN DigitsEnd(s, i + 1) ELSE i

RECURSIVE NumberOf(_)
NumberOf(ds) ==
  IF ds = <<>> THEN 0 ELSE 10 * NumberOf(SubSeq(ds, 1, Len(ds) - 1)) + HexVal(ds[Len(ds)])

JsonFail == [ok |-> FALSE, val |-> JNull, next |-> 0]
JsonOk(v, n) == [ok |-> TRUE, val |-> v, next |-> n]

HasAt(s, i, word) == i + Len(word) - 1 <= Len(s) /\ SubSeq(s, i, i + Len(word) - 1) = word

\* A string literal starting at the quote s[i]: up to the next quote; a backslash
\* (an escape) or a line feed inside is outside the modelled grammar.
JsonString(s, i) ==
  IF ~ \E k \in (i+1)..Len(s) : s[k] = "\"" THEN JsonFail
  ELSE LET k == CHOOSE q \in (i+1)..Len(s) :
                   s[q] = "\"" /\ \A j \in (i+1)..(q-1) : s[j] # "\""
           body == SubSeq(s, i + 1, k - 1)
       IN  IF \E j \in 1..Len(body) : body[j] \in {"\\", "\n"} THEN JsonFail
           ELSE JsonOk(JStr(body), k + 1)

RECURSIVE JsonValue(_, _)
RECURSIVE JsonMembers(_, _, _)

\* The members of an object after its opening brace or after a comma; i is at
\* the key.
JsonMembers(s, i0, acc) ==
  LET i == SkipBlanks(s, i0) IN
  IF i > Len(s) \/ s[i] # "\"" THEN JsonFail
  ELSE LET key == JsonString(s, i) IN
       IF ~ key.ok THEN JsonFail
       ELSE LET c == SkipBlanks(s, key.next) IN
            IF c > Len(s) \/ s[c] # ":" THEN JsonFail
            ELSE LET v == JsonValue(s, c + 1) IN
                 IF ~ v.ok THEN JsonFail
                 ELSE LET e == SkipBlanks(s, v.next)
                          all == Append(acc, <<key.val.s, v.val>>)
                      IN  IF e > Len(s) THEN JsonFail
                          ELSE IF s[e] = "}" THEN JsonOk(JObj(all), e + 1)
                          ELSE IF s[e] = "," THEN JsonMembers(s, e + 1, all)
                          ELSE JsonFail

JsonValue(s, i0) ==
  LET i == SkipBlanks(s, i0) IN
  IF i > Len(s) THEN JsonFail
  ELSE IF HasAt(s, i, <<"n","u","l","l">>) THEN JsonOk(JNull, i + 4)
  ELSE IF HasAt(s, i, <<"t","r","u","e">>) THEN JsonOk(JBool(TRUE), i + 4)
  ELSE IF HasAt(s, i, <<"f","a","l","s","e">>) THEN JsonOk(JBool(FALSE), i + 5)
  ELSE IF IsDigit(s[i]) THEN
         LET e == DigitsEnd(s, i) IN
         IF s[i] = "0" /\ e > i + 1 THEN JsonFail
         ELSE JsonOk(JNum(NumberOf(SubSeq(s, i, e - 1))), e)
  ELSE IF s[i] = "\"" THEN JsonString(s, i)
  ELSE IF s[i] = "{" THEN
         LET j == SkipBlanks(s, i + 1) IN
         IF j <= Len(s) /\ s[j] = "}" THEN JsonOk(JObj(<<>>), j + 1)
         ELSE JsonMembers(s, i + 1, <<>>)
  ELSE JsonFail

\* JSON.parse(s): the value, or a thrown SyntaxError.
JSONParse(s) ==
  LET v == JsonValue(s, 1) IN
  IF v.ok /\ SkipBlanks(s, v.next) > Len(s) THEN v.val ELSE Thrown("SyntaxError")

\* Template-literal rendering of a number or a string.
RECURSIVE DigitsOf(_)
DigitsOf(n) == IF n < 10 THEN <<HexDigits[n + 1]>> ELSE DigitsOf(n \div 10) \o <<HexDigits[(n % 10) + 1]>>

(***************************************************************************)
(* Percent-decoding                                                        *)
(***************************************************************************)
IsEscape(s, i) == s[i] = "%" /\ i + 2 <= Len(s) /\ IsHex(s[i+1]) /\ IsHex(s[i+2])
EscapeByte(s, i) == 16 * HexVal(s[i+1]) + HexVal(s[i+2])

\* The positions of s at which a unit of the decoding starts: every position but
\* the two hexadecimal digits of an escape (a left-to-right scan; escapes cannot
\* overlap, a digit being no "%").
UnitStarts(s) ==
  SelectSeq([i \in 1..Len(s) |-> i],
            LAMBDA i : ~ ((i > 1 /\ IsEscape(s, i - 1)) \/ (i > 2 /\ IsEscape(s, i - 2))))

\* The decoding URLSearchParams applies to a name or a value
\* (application/x-www-form-urlencoded): "+" is a space, %XX is the byte XX, a "%"
\* that starts no escape stands for itself; a byte that is not ASCII decodes to
\* U+FFFD (multi-byte UTF-8 sequences are outside the modelled alphabet).
FormDecode(s) ==
  LET starts == UnitStarts(s)
      unit(i) == IF s[i] = "+" THEN " "
                 ELSE IF IsEscape(s, i) THEN CharOf(EscapeByte(s, i))
                 ELSE s[i]
  IN  [k \in 1..Len(starts) |-> unit(starts[k])]

\* decodeURIComponent(s): [ok, s]; a "%" that starts no escape, or an escape
\* that is not the start of a UTF-8 sequence, raises URIError.
DecodeURIComponent(s) ==
  LET starts == UnitStarts(s)
      bad(i) == s[i] = "%" /\ (~ IsEscape(s, i) \/ EscapeByte(s, i) >= 128)
      unit(i) == IF IsEscape(s, i) THEN CharOf(EscapeByte(s, i)) ELSE s[i]
  IN  IF \E k \in 1..Len(starts) : bad(starts[k]) THEN [ok |-> FALSE, s |-> <<>>]
      ELSE [ok |-> TRUE, s |-> [k \in 1..Len(starts) |-> unit(starts[k])]]

(***************************************************************************)
(* URLSearchParams                                                         *)
(***************************************************************************)
\* One "name=value" piece of the query: split at the first "=".
ParsePair(piece) ==
  IF \E i \in 1..Len(piece) : piece[i] = "="
  THEN LET i == CHOOSE k \in 1..Len(piece) :
                  piece[k] = "=" /\ \A j \in 1..(k-1) : piece[j] # "="
       IN  <<FormDecode(SubSeq(piece, 1, i - 1)), FormDecode(SubSeq(piece, i + 1, Len(piece)))>>
  ELSE <<FormDecode(piece), <<>>>>

RECURSIVE ParsePieces(_)
ParsePieces(pieces) ==
  IF pieces = <<>> THEN <<>>
  ELSE IF Head(pieces) = <<>> THEN ParsePieces(Tail(pieces))
  ELSE <<ParsePair(Head(pieces))>> \o ParsePieces(Tail(pieces))

\* new URLSearchParams(str): the list of <<name, value>> pairs, in input order.
URLSearchParams(str) ==
  LET q == IF str # <<>> /\ str[1] = "?" THEN Tail(str) ELSE str
  IN  ParsePieces(Split(q, "&"))

\* params.get(name): the value of the first pair of that name, or null.
ParamsGet(params, name) ==
  IF \E i \in 1..Len(params) : params[i][1] = name
  THEN JStr(params[CHOOSE i \in 1..Len(params) :
                      params[i][1] = name /\ \A j \in 1..(i-1) : params[j][1] # name][2])
  ELSE JNull

\* params.delete(name): every pair of that name goes.
ParamsDelete(params, name) == SelectSeq(params, LAMBDA p : p[1] # name)

(***************************************************************************)
(* The digests of crypto.  SHA-256 and HMAC-SHA-256 are taken to be free   *)
(* of collisions: a digest spells out the bytes it was computed from.      *)
(***************************************************************************)
\* process.env.BOT_TOKEN, the shared bot secret.
BOT_TOKEN == <<"T">>

\* The concatenation of a sequence of sequences.
RECURSIVE Flatten(_)
Flatten(ss) ==
  IF ss = <<>> THEN <<>>
  ELSE IF Len(ss) = 1 THEN ss[1]
  ELSE LET h == Len(ss) \div 2
       IN  Flatten(SubSeq(ss, 1, h)) \o Flatten(SubSeq(ss, h + 1, Len(ss)))

\* The UTF-8 bytes of a string of the modelled alphabet.
BytesOf(s) ==
  Flatten([i \in 1..Len(s) |->
             IF s[i] = Replacement THEN <<239, 191, 189>> ELSE <<Code(s[i])>>])

\* bytes rendered as lowercase hexadecimal: digest('hex').
HexOf(bytes) ==
  [i \in 1..(2 * Len(bytes)) |->
     IF i % 2 = 1 THEN HexDigits[(bytes[(i + 1) \div 2] \div 16) + 1]
     ELSE HexDigits[(bytes[i \div 2] % 16) + 1]]

\* crypto.createHash('sha256').update(data).digest()
Sha256(data) == BytesOf(data)

\* crypto.createHmac('sha256', key).update(msg).digest('hex')
HmacSha256Hex(key, msg) == HexOf(key \o BytesOf(msg))

(***************************************************************************)
(* verifyInitData                                                          *)
(***************************************************************************)
RECURSIVE FormatEntries(_)
FormatEntries(params) ==
  IF params = <<>> THEN <<>>
  ELSE <<Head(params)[1] \o <<"=">> \o Head(params)[2]>> \o FormatEntries(Tail(params))

\* [...params.entries()].map(([k, v]) => `${k}=${v}`).sort().join('\n')
DataCheckString(params) == Join(Sort(FormatEntries(params)), <<"\n">>)

\* The try block: the first user pair, URI-decoded and parsed as JSON; null when
\* there is no (or an empty) user pair and when either step throws.
ParseUser(params) ==
  LET userStr == ParamsGet(params, <<"u","s","e","r">>) IN
  IF ~ Truthy(userStr) THEN JNull
  ELSE LET decoded == DecodeURIComponent(userStr.s) IN
       IF ~ decoded.ok THEN JNull
       ELSE LET user == JSONParse(decoded.s) IN
            IF IsThrown(user) THEN JNull ELSE user

\* verifyInitData(initDataStr), initDataStr a string, null or undefined.
verifyInitData(initDataStr) ==
  IF ~ Truthy(initDataStr) THEN JNull
  ELSE LET all == URLSearchParams(initDataStr.s)
           hash == ParamsGet(all, <<"h","a","s","h">>)
       IN  IF ~ Truthy(hash) THEN JNull
           ELSE LET params == ParamsDelete(all, <<"h","a","s","h">>)
                    computedHash == HmacSha256Hex(Sha256(BOT_TOKEN), DataCheckString(params))
                IN  IF computedHash # hash.s THEN JNull
                    ELSE ParseUser(params)

(***************************************************************************)
(* State                                                                   *)
(***************************************************************************)
VARIABLES
  \* the data store and the requests of the server
  wishlists,     \* the wishlists table: records [id, owner_id], in insertion order
  items,         \* the wishlist_items table, in insertion order
  clock,         \* the time new Date() reads
  req,           \* the requests: what each was sent, where its handler stands
  \* a parse request past its session check
  pUrl,          \* req.body.url
  pPc,           \* "start", "fetch" (awaiting the outbound GET), "done"
  pStrategy,     \* the branch of the if-chain the handler took, "none" before it
  pGot,          \* what the outbound GET gave
  pResponse,     \* the response sent
  \* the Session Verifier taken alone
  vInput,        \* the initData handed to verifyInitData
  vResult,       \* what the call returned, NotRun before it
  vCheckString,  \* the dataCheckString the call built, NotRun when it built none
  vBase,         \* the initData vInput was derived from
  vBaseResult,   \* what verifyInitData returned for vBase
  vHow           \* "fresh", or how vInput was derived: "permuted", "tampered"

verifyVars == <<vInput, vResult, vCheckString, vBase, vBaseResult, vHow>>
parseVars == <<pUrl, pPc, pStrategy, pGot, pResponse>>
serverVars == <<wishlists, items, clock, req>>
vars == <<wishlists, items, clock, req, pUrl, pPc, pStrategy, pGot, pResponse,
          vInput, vResult, vCheckString, vBase, vBaseResult, vHow>>

NotRun == [t |-> "pending"]

\* The most requests the server is sent.
MaxReq == 2
Reqs == 1..MaxReq

\* A request slot before its request arrives.
NoRequest ==
  [op |-> "none", token |-> "None", arg |-> JUndefined, pc |-> "idle", user |-> JNull,
   wl |-> 0, body |-> JNull, resp |-> NotRun, calls |-> 0, fetches |-> 0,
   writes |-> 0, atStart |-> "n/a", atLookup |-> "n/a"]

\* The parts of the state a specification leaves alone.
ServerIdle ==
  /\ wishlists = <<>> /\ items = <<>> /\ clock = 0
  /\ req = [r \in Reqs |-> NoRequest]
ParseIdle ==
  /\ pUrl = JUndefined /\ pPc = "idle" /\ pStrategy = "none"
  /\ pGot = NotRun /\ pResponse = NotRun
VerifyIdle ==
  /\ vInput = JUndefined /\ vResult = NotRun /\ vBase = JUndefined
  /\ vCheckString = NotRun
  /\ vBaseResult = NotRun /\ vHow = "idle"

(***************************************************************************)
(* SpecVerify: verifyInitData applied to tokens, to reorderings of their   *)
(* pairs and to tokens with one character of a value changed.              *)
(***************************************************************************)
\* The most pairs of a token.
MaxPairs == 3

UserKey == <<"u","s","e","r">>
HashKey == <<"h","a","s","h">>

\* The raw name=value pieces tokens are built of.
UserA == UserKey \o <<"=">> \o <<"{","\"","i","d","\"",":","1",",","\"","f","i","r","s","t","_","n","a","m","e","\"",":","\"","A","\"","}">>
UserB == UserKey \o <<"=">> \o <<"{","\"","i","d","\"",":","2",",","\"","f","i","r","s","t","_","n","a","m","e","\"",":","\"","B","\"","}">>
\* a display name that is a percent sign, percent-encoded
UserPercent == UserKey \o <<"=">> \o <<"{","\"","i","d","\"",":","1",",","\"","f","i","r","s","t","_","n","a","m","e","\"",":","\"","%","2","5","\"","}">>
\* a user value that is percent-encoded twice
UserTwice == UserKey \o <<"=">> \o <<"%","2","5","7","B","\"","i","d","\"",":","1","%","2","5","7","D">>
UserNotJson == UserKey \o <<"=">> \o <<"{","o","o","p","s">>
AuthDate == <<"a","u","t","h","_","d","a","t","e","=","1">>
\* a pair whose key continues the key user with a digit
UserDigit == <<"u","s","e","r","1","=","x">>
BodyPieces == {UserA, UserB, UserPercent, UserTwice, UserNotJson, AuthDate, UserDigit}

\* A token in outline: body pieces, and hash pairs that are right ("GOOD": the
\* HMAC of the check-string of the token's pairs) or wrong ("BAD").
GoodHash == <<"G","O","O","D">>
BadHash == HashKey \o <<"=","0","f">>
Outlines == UNION {[1..n -> BodyPieces \cup {GoodHash, BadHash}] : n \in 0..MaxPairs}

\* The hash the platform, which knows the bot secret, puts on these pieces.
SignatureOf(pieces) ==
  HmacSha256Hex(Sha256(BOT_TOKEN),
                DataCheckString(ParamsDelete(ParsePieces(pieces), HashKey)))

RenderToken(outline) ==
  LET sig == SignatureOf(SelectSeq(outline, LAMBDA p : p # GoodHash))
      piece(p) == IF p = GoodHash THEN HashKey \o <<"=">> \o sig ELSE p
  IN  Join([i \in 1..Len(outline) |-> piece(outline[i])], <<"&">>)

\* The initData of a request body: a token, or no initData field at all.
VerifyInputs == {JStr(RenderToken(o)) : o \in Outlines} \cup {JUndefined}

\* The orderings of the pieces of a raw token.
Reorderings(raw) ==
  LET pieces == Split(raw, "&")
      n == Len(pieces)
      perms == {f \in [1..n -> 1..n] : \A i, j \in 1..n : i # j => f[i] # f[j]}
  IN  {Join([i \in 1..n |-> pieces[f[i]]], <<"&">>) : f \in perms}

\* The positions of raw that lie in the value of a pair.
ValuePositions(raw) ==
  {i \in 1..Len(raw) :
     /\ raw[i] # "&"
     /\ \E j \in 1..(i-1) : raw[j] = "=" /\ \A k \in j..i : raw[k] # "&"}

\* The characters a tampered position is set to.
TamperChars == {"0", "1"}

Replace(raw, i, c) == [raw EXCEPT ![i] = c]

VerifyInit ==
  /\ ServerIdle /\ ParseIdle
  /\ vInput \in VerifyInputs
  /\ vResult = NotRun
  /\ vCheckString = NotRun
  /\ vBase = JUndefined
  /\ vBaseResult = NotRun
  /\ vHow = "fresh"

\* The dataCheckString of lines 54-57, for the calls that get that far.
CheckStringOf(initDataStr) ==
  IF ~ Truthy(initDataStr) THEN NotRun
  ELSE LET all == URLSearchParams(initDataStr.s) IN
       IF ~ Truthy(ParamsGet(all, HashKey)) THEN NotRun
       ELSE JStr(DataCheckString(ParamsDelete(all, HashKey)))

\* The call verifyInitData(vInput).
VerifyCall ==
  /\ vResult = NotRun
  /\ vResult' = verifyInitData(vInput)
  /\ vCheckString' = CheckStringOf(vInput)
  /\ UNCHANGED <<vInput, vBase, vBaseResult, vHow>>
  /\ UNCHANGED <<serverVars, parseVars>>

\* The same pairs arrive in another order.
VerifyPermute ==
  /\ vHow = "fresh" /\ vResult # NotRun /\ vInput.t = "str"
  /\ \E raw \in Reorderings(vInput.s) :
       /\ raw # vInput.s
       /\ vInput' = JStr(raw)
  /\ vBase' = vInput /\ vBaseResult' = vResult
  /\ vResult' = NotRun /\ vCheckString' = NotRun /\ vHow' = "permuted"
  /\ UNCHANGED <<serverVars, parseVars>>

\* One character of a value of a token that verified is changed.
VerifyTamper ==
  /\ vHow = "fresh" /\ vResult # NotRun /\ vInput.t = "str"
  /\ vResult.t = "obj"
  /\ \E i \in ValuePositions(vInput.s), c \in TamperChars :
       /\ c # vInput.s[i]
       /\ vInput' = JStr(Replace(vInput.s, i, c))
  /\ vBase' = vInput /\ vBaseResult' = vResult
  /\ vResult' = NotRun /\ vCheckString' = NotRun /\ vHow' = "tampered"
  /\ UNCHANGED <<serverVars, parseVars>>

VerifyNext == VerifyCall \/ VerifyPermute \/ VerifyTamper

SpecVerify == VerifyInit /\ [][VerifyNext]_vars

(***************************************************************************)
(* The Source Dispatcher and the extraction strategies                     *)
(***************************************************************************)
\* U+2013 and U+20BD, the two characters of the source outside ASCII.
EnDash == "U+2013"
Rouble == "U+20BD"

WildberriesHost == <<"w","i","l","d","b","e","r","r","i","e","s",".","r","u">>
OzonHost == <<"o","z","o","n",".","r","u">>
MarketYandexHost == <<"m","a","r","k","e","t",".","y","a","n","d","e","x",".","r","u">>
YandexHost == <<"y","a","n","d","e","x",".","r","u">>

\* A dispatcher that tests ozon.ru before wildberries.ru.
selectStrategyOzonFirst(url) ==
  IF Includes(url, OzonHost) THEN "parseOzon"
  ELSE IF Includes(url, WildberriesHost) THEN "parseWB"
  ELSE IF Includes(url, MarketYandexHost) \/ Includes(url, YandexHost) THEN "parseYandex"
  ELSE "parseGeneric"

\* The if-chain of the parse handler: the name of the parser the matching branch
\* assigns.
selectStrategy(url) ==
  IF Includes(url, WildberriesHost) THEN "parseWB"
  ELSE IF Includes(url, OzonHost) THEN "parseOzon"
  ELSE IF Includes(url, MarketYandexHost) \/ Includes(url, YandexHost) THEN "parseYandex"
  ELSE "parseGeneric"

\* The functions the file declares; a name that is none of them is unbound, and
\* evaluating it raises ReferenceError.
DeclaredParsers == {"parseWB", "parseOzon", "parseYandex"}

\* `${v}` for a JavaScript value.
TemplateOf(v) ==
  CASE v.t = "num" -> DigitsOf(v.n)
    [] v.t = "str" -> v.s
    [] v.t = "bool" -> IF v.b THEN <<"t","r","u","e">> ELSE <<"f","a","l","s","e">>
    [] v.t = "null" -> <<"n","u","l","l">>
    [] v.t = "undefined" -> <<"u","n","d","e","f","i","n","e","d">>
    [] OTHER -> <<"[","o","b","j","e","c","t"," ","O","b","j","e","c","t","]">>

\* url.match(/word(\d+)/)?.[1]: the digits after the first occurrence of word
\* that a digit follows, or undefined.
MatchDigitsAfter(url, word) ==
  LET hits == {i \in 1..Len(url) :
                 /\ HasAt(url, i, word)
                 /\ i + Len(word) <= Len(url)
                 /\ IsDigit(url[i + Len(word)])}
  IN  IF hits = {} THEN JUndefined
      ELSE LET i == CHOOSE h \in hits : \A g \in hits : h <= g
               from == i + Len(word)
           IN  JStr(SubSeq(url, from, DigitsEnd(url, from) - 1))

\* The sku of parseWB: the catalog-style match, else the product-style match.
WBSku(url) ==
  LET a == MatchDigitsAfter(url, <<"c","a","t","a","l","o","g","/">>) IN
  IF Truthy(a) THEN a ELSE MatchDigitsAfter(url, <<"p","r","o","d","u","c","t","/">>)

\* A price rendering that leaves the minor units undivided.
HundredthOfUndivided(n) == DigitsOf(n)

\* `${n / 100}` for a non-negative integer n.
HundredthOf(n) ==
  IF n % 100 = 0 THEN DigitsOf(n \div 100)
  ELSE IF n % 10 = 0 THEN DigitsOf(n \div 100) \o <<".">> \o DigitsOf((n % 100) \div 10)
  ELSE DigitsOf(n \div 100) \o <<".">> \o DigitsOf((n % 100) \div 10) \o DigitsOf(n % 10)

\* The image URL parseWB builds from nmId.
WBImage(nmId) ==
  <<"h","t","t","p","s",":","/","/","b","a","s","k","e","t","-">> \o <<DigitsOf(nmId)[1]>> \o <<".","w","b","b","a","s","k","e","t",".","r","u","/","v","o","l">>
  \o DigitsOf(nmId \div 100000) \o <<"/","p","a","r","t">> \o DigitsOf(nmId \div 1000)
  \o <<"/">> \o DigitsOf(nmId) \o <<"/","i","m","a","g","e","s","/","b","i","g","/","1",".","j","p","g">>

\* What a strategy returns.
Metadata(title, image, price) == [t |-> "meta", title |-> title, image |-> image, price |-> price]

\* An outbound GET that failed in transport.
TransportError == [t |-> "neterror"]

\* parseWB after its await: api is what axios.get gave, TransportError or the
\* body [products |-> <<...>>] (nobody: a body without data.products).
parseWB(url, api) ==
  IF api = TransportError THEN Thrown("AxiosError")
  ELSE IF api.t = "nobody" THEN Thrown("TypeError")
  ELSE IF api.products = <<>> THEN Thrown("ProductNotFound")
  ELSE LET product == api.products[1] IN
       Metadata(JStr(product.name),
                JStr(WBImage(product.nmId)),
                JStr(HundredthOf(product.salePriceU) \o <<" ", Rouble>>))

\* s.replace(pattern, by) for a string pattern: the first occurrence.
ReplaceFirst(s, pattern, by) ==
  LET hits == {i \in 1..Len(s) : HasAt(s, i, pattern)} IN
  IF hits = {} THEN s
  ELSE LET i == CHOOSE h \in hits : \A g \in hits : h <= g
       IN  SubSeq(s, 1, i - 1) \o by \o SubSeq(s, i + Len(pattern), Len(s))

\* One turn of the .each callback of parseOzon and parseYandex: price after the
\* block text is seen.  A block that does not parse leaves price alone (the
\* empty catch), and so does one without a truthy offers.price.
PriceAfterBlock(price, text) ==
  LET json == JSONParse(text)
      found == IF IsThrown(json) THEN JUndefined
               ELSE OptProp(OptProp(json, <<"o","f","f","e","r","s">>), <<"p","r","i","c","e">>)
  IN  IF Truthy(found) THEN JStr(TemplateOf(found) \o <<" ", Rouble>>) ELSE price

\* The .each loop over the ld+json blocks, in document order.
RECURSIVE PriceOfBlocks(_, _)
PriceOfBlocks(price, blocks) ==
  IF blocks = <<>> THEN price
  ELSE PriceOfBlocks(PriceAfterBlock(price, Head(blocks)), Tail(blocks))

\* A fetched page as cheerio queries it: the content of the og:title and
\* og:image meta elements (undefined without the element), the text of the
\* title element, the texts of the ld+json script elements.
Page(ogTitle, titleText, ogImage, scripts) ==
  [t |-> "page", ogTitle |-> ogTitle, titleText |-> titleText, ogImage |-> ogImage,
   scripts |-> scripts]

\* parseOzon after its await.
parseOzon(html) ==
  IF html = TransportError THEN Thrown("AxiosError")
  ELSE Metadata(IF Truthy(html.ogTitle) THEN html.ogTitle
                ELSE JStr(ReplaceFirst(html.titleText, <<" ",EnDash," ","O","z","o","n">>, <<>>)),
                html.ogImage,
                PriceOfBlocks(JNull, html.scripts))

\* parseYandex after its await.
parseYandex(html) ==
  IF html = TransportError THEN Thrown("AxiosError")
  ELSE Metadata(IF Truthy(html.ogTitle) THEN html.ogTitle ELSE JStr(html.titleText),
                html.ogImage,
                PriceOfBlocks(JNull, html.scripts))

\* The responses of the handlers.
Unauthorized == [status |-> 401, success |-> FALSE, error |-> "Unauthorized"]
Failure(error) == [status |-> 200, success |-> FALSE, error |-> error]
ParseSuccess(result, url) ==
  [status |-> 200, success |-> TRUE, title |-> result.title, image |-> result.image,
   price |-> result.price, url |-> url]

\* The handler is suspended at the await of its outbound GET.
AwaitFetch == [t |-> "await"]

\* The parse handler from its try block to the first await: AwaitFetch when the
\* parser has issued its GET, else the response of the catch clause.
ParseDispatch(url) ==
  LET parser == selectStrategy(url) IN
  IF parser \notin DeclaredParsers THEN Failure("ParseFailed")
  ELSE IF parser = "parseWB" /\ ~ Truthy(WBSku(url)) THEN Failure("ParseFailed")
  ELSE AwaitFetch

\* A catch clause that answers success:true with empty metadata.
ParseRespondNullsOnThrow(url, got) ==
  LET parser == selectStrategy(url)
      result == CASE parser = "parseWB" -> parseWB(url, got)
                  [] parser = "parseOzon" -> parseOzon(got)
                  [] OTHER -> parseYandex(got)
  IN  IF IsThrown(result) THEN ParseSuccess(Metadata(JNull, JNull, JNull), url)
      ELSE ParseSuccess(result, url)

\* The parse handler after the await: the response for what the GET gave.
ParseRespond(url, got) ==
  LET parser == selectStrategy(url)
      result == CASE parser = "parseWB" -> parseWB(url, got)
                  [] parser = "parseOzon" -> parseOzon(got)
                  [] OTHER -> parseYandex(got)
  IN  IF IsThrown(result) THEN Failure("ParseFailed") ELSE ParseSuccess(result, url)

(***************************************************************************)
(* SpecParse: one parse request with a valid session, from its url check   *)
(* to its response, for every url and every outcome of the outbound GET.   *)
(***************************************************************************)
\* The most ld+json blocks of a page.
MaxBlocks == 2

Scheme == <<"h","t","t","p","s",":","/","/">>
ParseHosts ==
  {<<"w","w","w",".","w","i","l","d","b","e","r","r","i","e","s",".","r","u">>, OzonHost, MarketYandexHost, YandexHost, <<"e","x","a","m","p","l","e",".","c","o","m">>}
ParsePaths ==
  {<<"/","c","a","t","a","l","o","g","/","1","2","/","d","e","t","a","i","l",".","a","s","p","x">>, <<"/","p","r","o","d","u","c","t","/","3","4","5">>, <<"/","i","t","e","m">>}
  \cup {<<"/","?","f","r","o","m","=">> \o h : h \in {WildberriesHost, OzonHost, MarketYandexHost, YandexHost}}

\* The url field of the request: absent, empty, or a string.
ParseUrls ==
  {JUndefined, JStr(<<>>)} \cup {JStr(Scheme \o h \o q) : h \in ParseHosts, q \in ParsePaths}

\* The most hundreds of minor units among the small prices.
MaxHundreds == 3

\* The salePriceU values of the vendor: the small multiples of 100, the price of
\* the example, and two prices that are not whole.
SalePrices == {100 * k : k \in 0..MaxHundreds} \cup {150000, 99990, 1234}

\* The bodies the vendor API answers with.
VendorBodies ==
  {[t |-> "nobody"], [t |-> "body", products |-> <<>>]}
  \cup {[t |-> "body", products |-> <<[name |-> <<"L","a","m","p">>, salePriceU |-> u, nmId |-> n]>>] :
          u \in SalePrices, n \in {12, 123456}}

PricedOne == <<"{","\"","o","f","f","e","r","s","\"",":","{","\"","p","r","i","c","e","\"",":","1","}","}">>
PricedTwo == <<"{","\"","o","f","f","e","r","s","\"",":","{","\"","p","r","i","c","e","\"",":","\"","2","\"","}","}">>
BlockTexts ==
  {PricedOne, PricedTwo, <<"{","\"","o","f","f","e","r","s","\"",":","{","}","}">>, <<"{","\"","n","a","m","e","\"",":","\"","L","a","m","p","\"","}">>, <<"{","\"","o","f","f","e","r","s","\"",":">>, <<"n","u","l","l">>}

\* The pages a fetch returns.
Pages ==
  {Page(head[1], head[2], image, scripts) :
     head \in {<<JStr(<<"W","i","d","g","e","t">>), <<>>>>, <<JUndefined, <<"L","a","m","p"," ",EnDash," ","O","z","o","n">>>>, <<JUndefined, <<>>>>},
     image \in {JUndefined, JStr(<<"h","t","t","p","s",":","/","/","c","d","n","/","1",".","j","p","g">>)},
     scripts \in UNION {[1..n -> BlockTexts] : n \in 0..MaxBlocks}}

\* What the GET of a strategy can give.
FetchOutcomes(parser) ==
  {TransportError} \cup (IF parser = "parseWB" THEN VendorBodies ELSE Pages)

ParseInit ==
  /\ ServerIdle /\ VerifyIdle
  /\ pUrl \in ParseUrls
  /\ pPc = "start"
  /\ pStrategy = "none"
  /\ pGot = NotRun
  /\ pResponse = NotRun

\* The handler from its url check to its first await.
ParseStart ==
  /\ pPc = "start"
  /\ IF ~ Truthy(pUrl)
     THEN pResponse' = Failure("UrlMissing") /\ pPc' = "done" /\ UNCHANGED pStrategy
     ELSE LET step == ParseDispatch(pUrl.s) IN
          /\ pStrategy' = selectStrategy(pUrl.s)
          /\ IF step = AwaitFetch
             THEN pPc' = "fetch" /\ UNCHANGED pResponse
             ELSE pResponse' = step /\ pPc' = "done"
  /\ UNCHANGED <<pUrl, pGot>>
  /\ UNCHANGED <<serverVars, verifyVars>>

\* The outbound GET returns and the handler runs to its response.
ParseFetched ==
  /\ pPc = "fetch"
  /\ \E got \in FetchOutcomes(selectStrategy(pUrl.s)) :
       /\ pGot' = got
       /\ pResponse' = ParseRespond(pUrl.s, got)
  /\ pPc' = "done"
  /\ UNCHANGED <<pUrl, pStrategy>>
  /\ UNCHANGED <<serverVars, verifyVars>>

ParseNext == ParseStart \/ ParseFetched

SpecParse == ParseInit /\ [][ParseNext]_vars

(***************************************************************************)
(* Spec: the server.  Requests arrive at any time; a handler runs from one *)
(* await to the next in one step, and the step that resumes it is the one  *)
(* in which the store (or the fetched site) serves its outbound call.      *)
(***************************************************************************)
\* The sessions requests come with: the tokens of two users, a token whose hash
\* belongs to other data, and no initData at all.
SessionTokens == {"A", "B", "Forged", "None"}

InitDataOf(token) ==
  CASE token = "A" -> JStr(RenderToken(<<UserA, AuthDate, GoodHash>>))
    [] token = "B" -> JStr(RenderToken(<<AuthDate, UserB, GoodHash>>))
    [] token = "Forged" ->
         JStr(Join(<<UserB, HashKey \o <<"=">> \o SignatureOf(<<UserA>>)>>, <<"&">>))
    [] OTHER -> JUndefined

\* verifyInitData(req.body.initData) for each of the sessions.
VerifiedUser == [token \in SessionTokens |-> verifyInitData(InitDataOf(token))]

\* The item_id and url fields requests come with.
ItemIds == {JUndefined, JNum(1), JNum(2)}
WBUrl == <<"h","t","t","p","s",":","/","/","w","w","w",".","w","i","l","d","b","e","r","r","i","e","s",".","r","u","/","c","a","t","a","l","o","g","/","1","2","/","d","e","t","a","i","l",".","a","s","p","x">>
OzonUrl == <<"h","t","t","p","s",":","/","/","o","z","o","n",".","r","u","/","p","r","o","d","u","c","t","/","3","4","5">>
OtherUrl == <<"h","t","t","p","s",":","/","/","e","x","a","m","p","l","e",".","c","o","m","/","i","t","e","m">>
ServerUrls == {JUndefined, JStr(WBUrl), JStr(OzonUrl), JStr(OtherUrl)}

\* What the outbound GET of a parse request gives.
ServerOutcomes(parser) ==
  {TransportError}
  \cup (IF parser = "parseWB"
        THEN {[t |-> "body", products |-> <<[name |-> <<"L","a","m","p">>, salePriceU |-> 150000, nmId |-> 12]>>]}
        ELSE {Page(JStr(<<"W","i","d","g","e","t">>), <<>>, JUndefined, <<PricedOne>>)})

\* A wishlist_items row with no reservation.
NewItem(id, wishlist_id) ==
  [id |-> id, wishlist_id |-> wishlist_id,
   reserved_by |-> JNull, reserved_name |-> JNull, reserved_at |-> JNull]

\* The stores the server may start with: an empty one, and one that holds the
\* wishlist of user 1 with an item, free or reserved by user 2.
InitialStores ==
  {[wishlists |-> <<>>, items |-> <<>>],
   [wishlists |-> <<[id |-> 1, owner_id |-> JNum(1)]>>, items |-> <<NewItem(1, 1)>>],
   [wishlists |-> <<[id |-> 1, owner_id |-> JNum(1)]>>,
    items |-> <<[NewItem(1, 1) EXCEPT !.reserved_by = JNum(2), !.reserved_name = JStr(<<"B">>),
                                      !.reserved_at = JNum(0)]>>]}

Init ==
  /\ ParseIdle /\ VerifyIdle
  /\ \E store \in InitialStores : wishlists = store.wishlists /\ items = store.items
  /\ clock = 1
  /\ req = [r \in Reqs |-> NoRequest]

\* The queries the handlers send to the store.
\* A wishlists lookup without its owner_id filter.
WishlistsOfAnyone(owner_id) == wishlists

\* GET wishlists?owner_id=eq.<owner_id>
WishlistsOf(owner_id) == SelectSeq(wishlists, LAMBDA w : w.owner_id = owner_id)
\* GET wishlist_items?wishlist_id=eq.<id>&select=*
ItemsOf(wishlist_id) == SelectSeq(items, LAMBDA i : i.wishlist_id = wishlist_id)
\* The lookup without its reserved_by=is.null filter.
FreeItemsUnfiltered(item_id) == SelectSeq(items, LAMBDA i : JNum(i.id) = item_id)

\* GET wishlist_items?id=eq.<item_id>&reserved_by=is.null
FreeItems(item_id) ==
  SelectSeq(items, LAMBDA i : JNum(i.id) = item_id /\ i.reserved_by = JNull)
\* PATCH wishlist_items?id=eq.<item_id> with the reservation as body: the table
\* after it.
Patched(item_id, body) ==
  [k \in 1..Len(items) |->
     IF JNum(items[k].id) = item_id
     THEN [items[k] EXCEPT !.reserved_by = body.reserved_by,
                           !.reserved_name = body.reserved_name,
                           !.reserved_at = body.reserved_at]
     ELSE items[k]]

\* The request of slot r arrives: slots fill in order.
Arrives(r) == req[r].pc = "idle" /\ (IF r = 1 THEN TRUE ELSE req[r - 1].pc # "idle")

\* A session check that lets every request through.
RejectsNone(user) == FALSE

\* if (!user) return res.status(401)...: the guard each handler opens with.
Rejects(user) == ~ Truthy(user)

\* A request as its handler starts on it.
Arrived(op, token, arg) ==
  [NoRequest EXCEPT !.op = op, !.token = token, !.arg = arg, !.user = VerifiedUser[token]]

\* res.json(...) / res.status(...).json(...): the handler answers and ends.
Answered(q, resp) == [q EXCEPT !.pc = "done", !.resp = resp]
\* The handler issues a call to the store and awaits it at pc.
AwaitStore(q, pc) == [q EXCEPT !.pc = pc, !.calls = @ + 1]

\* POST /api/items to its first await.
StartList(r) ==
  /\ Arrives(r)
  /\ \E token \in SessionTokens :
       LET q == Arrived("list", token, JUndefined) IN
       req' = [req EXCEPT ![r] =
                 IF Rejects(q.user) THEN Answered(q, Unauthorized)
                 ELSE AwaitStore(q, "list_wishlists")]
  /\ UNCHANGED <<wishlists, items, clock, parseVars, verifyVars>>

\* The store answers GET wishlists; the handler creates the wishlist when there
\* is none, else it asks for the items of the first one.  The order of the rows
\* of an unordered GET is the store's choice.
ListWishlists(r) ==
  /\ req[r].pc = "list_wishlists"
  /\ LET found == WishlistsOf(GetProp(req[r].user, <<"i","d">>)) IN
     IF found = <<>>
     THEN req' = [req EXCEPT ![r] = AwaitStore(@, "list_create")]
     ELSE \E k \in 1..Len(found) :
            req' = [req EXCEPT ![r] = AwaitStore([@ EXCEPT !.wl = found[k].id], "list_items")]
  /\ UNCHANGED <<wishlists, items, clock, parseVars, verifyVars>>

\* The store serves POST wishlists and returns the created row.
ListCreate(r) ==
  /\ req[r].pc = "list_create"
  /\ LET created == [id |-> Len(wishlists) + 1, owner_id |-> GetProp(req[r].user, <<"i","d">>)] IN
     /\ wishlists' = Append(wishlists, created)
     /\ req' = [req EXCEPT ![r] =
                  AwaitStore([@ EXCEPT !.wl = created.id, !.writes = @ + 1], "list_items")]
  /\ UNCHANGED <<items, clock, parseVars, verifyVars>>

\* The store answers GET wishlist_items; the handler answers the request.
ListItems(r) ==
  /\ req[r].pc = "list_items"
  /\ req' = [req EXCEPT ![r] =
               Answered(@, [status |-> 200, success |-> TRUE,
                            owner_id |-> GetProp(req[r].user, <<"i","d">>),
                            owner_name |-> GetProp(req[r].user, <<"f","i","r","s","t","_","n","a","m","e">>),
                            items |-> ItemsOf(req[r].wl)])]
  /\ UNCHANGED <<wishlists, items, clock, parseVars, verifyVars>>

\* POST /api/items/add to its first await.
StartAdd(r) ==
  /\ Arrives(r)
  /\ \E token \in SessionTokens :
       LET q == Arrived("add", token, JUndefined) IN
       req' = [req EXCEPT ![r] =
                 IF Rejects(q.user) THEN Answered(q, Unauthorized)
                 ELSE AwaitStore(q, "add_wishlists")]
  /\ UNCHANGED <<wishlists, items, clock, parseVars, verifyVars>>

\* An add handler without the check of lines 111-113: it posts the item whether
\* or not the caller has a wishlist.
AddWishlistsUnchecked(r) ==
  /\ req[r].pc = "add_wishlists"
  /\ LET found == WishlistsOf(GetProp(req[r].user, <<"i","d">>)) IN
     IF found = <<>>
     THEN req' = [req EXCEPT ![r] = AwaitStore(@, "add_create")]
     ELSE \E k \in 1..Len(found) :
            req' = [req EXCEPT ![r] = AwaitStore([@ EXCEPT !.wl = found[k].id], "add_create")]
  /\ UNCHANGED <<wishlists, items, clock, parseVars, verifyVars>>

\* The store answers GET wishlists; without a wishlist the handler answers 400,
\* else it posts the new item.
AddWishlists(r) ==
  /\ req[r].pc = "add_wishlists"
  /\ LET found == WishlistsOf(GetProp(req[r].user, <<"i","d">>)) IN
     IF found = <<>>
     THEN req' = [req EXCEPT ![r] =
                    Answered(@, [status |-> 400, success |-> FALSE, error |-> "NoWishlist"])]
     ELSE \E k \in 1..Len(found) :
            req' = [req EXCEPT ![r] = AwaitStore([@ EXCEPT !.wl = found[k].id], "add_create")]
  /\ UNCHANGED <<wishlists, items, clock, parseVars, verifyVars>>

\* The store serves POST wishlist_items; the handler answers the request.
AddCreate(r) ==
  /\ req[r].pc = "add_create"
  /\ items' = Append(items, NewItem(Len(items) + 1, req[r].wl))
  /\ req' = [req EXCEPT ![r] =
               Answered([@ EXCEPT !.writes = @ + 1], [status |-> 200, success |-> TRUE])]
  /\ UNCHANGED <<wishlists, clock, parseVars, verifyVars>>

\* POST /api/parse to its first await.
StartParse(r) ==
  /\ Arrives(r)
  /\ \E token \in SessionTokens, url \in ServerUrls :
       LET q == Arrived("parse", token, url) IN
       req' = [req EXCEPT ![r] =
                 IF Rejects(q.user) THEN Answered(q, Unauthorized)
                 ELSE IF ~ Truthy(url) THEN Answered(q, Failure("UrlMissing"))
                 ELSE IF ParseDispatch(url.s) = AwaitFetch
                      THEN [q EXCEPT !.pc = "parse_fetch", !.calls = @ + 1, !.fetches = @ + 1]
                      ELSE Answered(q, ParseDispatch(url.s))]
  /\ UNCHANGED <<wishlists, items, clock, parseVars, verifyVars>>

\* The outbound GET of the parser returns; the handler answers the request.
ParseFetch(r) ==
  /\ req[r].pc = "parse_fetch"
  /\ \E got \in ServerOutcomes(selectStrategy(req[r].arg.s)) :
       req' = [req EXCEPT ![r] = Answered(@, ParseRespond(req[r].arg.s, got))]
  /\ UNCHANGED <<wishlists, items, clock, parseVars, verifyVars>>

\* How the item a reserve request names stands in the store.
ItemCase(item_id) ==
  IF ~ Truthy(item_id) THEN "missing"
  ELSE IF ~ \E k \in 1..Len(items) : JNum(items[k].id) = item_id THEN "nonexistent"
  ELSE IF \E k \in 1..Len(items) : JNum(items[k].id) = item_id /\ items[k].reserved_by # JNull
       THEN "reserved"
  ELSE "free"

\* POST /api/reserve to its first await.
StartReserve(r) ==
  /\ Arrives(r)
  /\ \E token \in SessionTokens, item_id \in ItemIds :
       LET q == [Arrived("reserve", token, item_id) EXCEPT !.atStart = ItemCase(item_id)] IN
       req' = [req EXCEPT ![r] =
                 IF Rejects(q.user) THEN Answered(q, Unauthorized)
                 ELSE IF ~ Truthy(item_id) THEN Answered(q, Failure("ItemIdMissing"))
                 ELSE AwaitStore(q, "reserve_check")]
  /\ UNCHANGED <<wishlists, items, clock, parseVars, verifyVars>>

\* The store answers the GET for the free item; with no row the handler answers
\* the failure, else it sends the PATCH, stamped with the time it reads.
ReserveCheck(r) ==
  /\ req[r].pc = "reserve_check"
  /\ LET q == [req[r] EXCEPT !.atLookup = ItemCase(req[r].arg)] IN
     IF FreeItems(q.arg) = <<>>
     THEN /\ req' = [req EXCEPT ![r] = Answered(q, Failure("ReservedOrMissing"))]
          /\ UNCHANGED clock
     ELSE /\ req' = [req EXCEPT ![r] =
                       AwaitStore([q EXCEPT !.body =
                                     [t |-> "reservation",
                                      reserved_by |-> GetProp(q.user, <<"i","d">>),
                                      reserved_name |-> GetProp(q.user, <<"f","i","r","s","t","_","n","a","m","e">>),
                                      reserved_at |-> JNum(clock)]],
                                  "reserve_patch")]
          /\ clock' = clock + 1
  /\ UNCHANGED <<wishlists, items, parseVars, verifyVars>>

\* The store serves the PATCH; the handler answers the request.
ReservePatch(r) ==
  /\ req[r].pc = "reserve_patch"
  /\ items' = Patched(req[r].arg, req[r].body)
  /\ req' = [req EXCEPT ![r] =
               Answered([@ EXCEPT !.writes = @ + 1], [status |-> 200, success |-> TRUE])]
  /\ UNCHANGED <<wishlists, clock, parseVars, verifyVars>>

\* A call to the store fails: supabaseQuery rethrows, no handler of list, add or
\* reserve catches, and the request is left without a response.
StorePcs ==
  {"list_wishlists", "list_create", "list_items", "add_wishlists", "add_create",
   "reserve_check", "reserve_patch"}

StoreFails(r) ==
  /\ req[r].pc \in StorePcs
  /\ req' = [req EXCEPT ![r].pc = "rejected"]
  /\ UNCHANGED <<wishlists, items, clock, parseVars, verifyVars>>

Next ==
  \E r \in Reqs :
    \/ StartList(r) \/ ListWishlists(r) \/ ListCreate(r) \/ ListItems(r)
    \/ StartAdd(r) \/ AddWishlists(r) \/ AddCreate(r)
    \/ StartParse(r) \/ ParseFetch(r)
    \/ StartReserve(r) \/ ReserveCheck(r) \/ ReservePatch(r)
    \/ StoreFails(r)

Spec == Init /\ [][Next]_vars

\* The steps that resume the handler of slot r: each outbound call it awaits
\* settles, served or failed.
Resumes(r) ==
  \/ ListWishlists(r) \/ ListCreate(r) \/ ListItems(r)
  \/ AddWishlists(r) \/ AddCreate(r)
  \/ ParseFetch(r)
  \/ ReserveCheck(r) \/ ReservePatch(r)
  \/ StoreFails(r)

\* The server with every awaited call settling in the end: the event loop
\* resumes a handler whose promise has settled.
SpecLive == Spec /\ \A r \in Reqs : WF_vars(Resumes(r))

(***************************************************************************)
(* Claims about the Session Verifier (SpecVerify)                          *)
(***************************************************************************)
\* The hash pair of the token is the HMAC of the check-string of its other pairs.
HashMatches(raw) ==
  LET all == URLSearchParams(raw)
      hash == ParamsGet(all, HashKey)
  IN  /\ hash.t = "str"
      /\ hash.s = HmacSha256Hex(Sha256(BOT_TOKEN), DataCheckString(ParamsDelete(all, HashKey)))

\* The user field of the token, read as JSON (undefined when there is none).
EmbeddedUser(raw) ==
  LET user == ParamsGet(URLSearchParams(raw), UserKey)
  IN  IF user.t = "str" THEN JSONParse(user.s) ELSE JUndefined

\* C5: verifyInitData returns the embedded user for every token whose hash is the
\* HMAC of its check-string and whose user field is a JSON object, and returns
\* null for every token got from such a token by changing one character of the
\* hash or of a parameter value.
C5_SignedTokenVerifies ==
  /\ (/\ vHow = "fresh" /\ vResult # NotRun /\ vInput.t = "str"
      /\ HashMatches(vInput.s) /\ EmbeddedUser(vInput.s).t = "obj")
     => vResult = EmbeddedUser(vInput.s)
  /\ (/\ vHow = "tampered" /\ vResult # NotRun
      /\ HashMatches(vBase.s) /\ EmbeddedUser(vBase.s).t = "obj")
     => vResult = JNull

\* C6: the result of verifyInitData is the same for every ordering of the pairs
\* of a token, repeated keys included.
C6_OrderIndependent ==
  (vHow = "permuted" /\ vResult # NotRun) => vResult = vBaseResult

\* The input is empty or absent, has no hash field, has a hash that is not the
\* computed digest, or has a user field that is missing or not valid JSON.
MustBeRejected(input) ==
  \/ ~ Truthy(input)
  \/ ParamsGet(URLSearchParams(input.s), HashKey) = JNull
  \/ ~ HashMatches(input.s)
  \/ EmbeddedUser(input.s) = JUndefined
  \/ IsThrown(EmbeddedUser(input.s))

\* C7: verifyInitData returns null whenever the input is empty or absent, has no
\* hash field, a hash that differs from the computed digest, or a user field that
\* is missing or is not valid JSON; and it throws for no input.
C7_RejectsMalformed ==
  vResult # NotRun =>
    /\ ~ IsThrown(vResult)
    /\ MustBeRejected(vInput) => vResult = JNull

\* C17: the check-string verifyInitData builds is the key=value lines of the
\* pairs other than hash, in ascending order of their keys, joined by newlines.
C17_SortedByKey ==
  (vCheckString # NotRun) =>
    LET params == ParamsDelete(URLSearchParams(vInput.s), HashKey)
        n == Len(params)
        perms == {f \in [1..n -> 1..n] : \A i, j \in 1..n : i # j => f[i] # f[j]}
    IN  \E f \in perms :
          /\ \A i \in 1..(n - 1) : ~ StrLess(params[f[i + 1]][1], params[f[i]][1])
          /\ vCheckString.s =
               Join([i \in 1..n |-> params[f[i]][1] \o <<"=">> \o params[f[i]][2]], <<"\n">>)

(***************************************************************************)
(* Claims about the parse request (SpecParse)                              *)
(***************************************************************************)
MatchesNoSource(url) ==
  /\ ~ Includes(url, WildberriesHost) /\ ~ Includes(url, OzonHost)
  /\ ~ Includes(url, MarketYandexHost) /\ ~ Includes(url, YandexHost)

\* C8: the strategy is chosen by the substrings of the url in the priority order
\* wildberries.ru, ozon.ru, then market.yandex.ru or yandex.ru; the first match
\* wins, and a url with none of them takes the generic fallback branch.
C8_PriorityOrder ==
  pStrategy # "none" =>
    /\ Includes(pUrl.s, WildberriesHost) => pStrategy = "parseWB"
    /\ (~ Includes(pUrl.s, WildberriesHost) /\ Includes(pUrl.s, OzonHost))
         => pStrategy = "parseOzon"
    /\ (/\ ~ Includes(pUrl.s, WildberriesHost) /\ ~ Includes(pUrl.s, OzonHost)
        /\ (Includes(pUrl.s, MarketYandexHost) \/ Includes(pUrl.s, YandexHost)))
         => pStrategy = "parseYandex"
    /\ MatchesNoSource(pUrl.s) => pStrategy = "parseGeneric"

\* C8 witness: a url that holds the substrings of two sources was dispatched to
\* the one of higher priority.
C8_Witness == pStrategy = "parseWB" /\ Includes(pUrl.s, OzonHost)

\* C9: a parse request whose url matches no source is answered success:true
\* with the metadata the HTML heuristic finds, and success:false only when the
\* fetch or the extraction throws.
C9_GenericFallbackExtracts ==
  (pPc = "done" /\ Truthy(pUrl) /\ MatchesNoSource(pUrl.s))
    => (pResponse.success \/ pGot = TransportError)

\* The price of the first block, in document order, that parses as JSON and has
\* an offers.price field; null when there is none.
RECURSIVE FirstPrice(_)
FirstPrice(blocks) ==
  IF blocks = <<>> THEN JNull
  ELSE LET json == JSONParse(Head(blocks))
           price == IF IsThrown(json) THEN JUndefined
                    ELSE OptProp(OptProp(json, <<"o","f","f","e","r","s">>), <<"p","r","i","c","e">>)
       IN  IF price # JUndefined THEN JStr(TemplateOf(price) \o <<" ", Rouble>>)
           ELSE FirstPrice(Tail(blocks))

\* C10: parseOzon and parseYandex return the price of the first ld+json block
\* that parses and has offers.price, skipping the blocks that do not parse, and
\* null when no block has one.
C10_FirstPriceWins ==
  (pPc = "done" /\ pStrategy \in {"parseOzon", "parseYandex"} /\ pGot.t = "page")
    => /\ pResponse.success
       /\ pResponse.price = FirstPrice(pGot.scripts)

\* The parse request has run into an exception: the generic branch names an
\* unbound function, parseWB finds no identifier in the url, the outbound GET
\* fails in transport, or the vendor body holds no product (or no product list).
ParseRaised ==
  /\ pPc = "done" /\ Truthy(pUrl)
  /\ \/ pStrategy = "parseGeneric"
     \/ (pStrategy = "parseWB" /\ pGot = NotRun)
     \/ pGot = TransportError
     \/ pGot.t = "nobody"
     \/ (pGot.t = "body" /\ pGot.products = <<>>)

\* The fields of a response that carry metadata.
MetadataFields == {"title", "image", "price"}

\* C11: a parse request that runs into an exception is answered once, with
\* status 200, success:false and the one generic message, and no title, image
\* or price; a request without url is answered success:false with no fetch; a
\* response once given is never replaced.
C11_ThrowAnsweredOnce ==
  /\ [](/\ ParseRaised =>
            /\ pResponse = Failure("ParseFailed")
            /\ DOMAIN pResponse \cap MetadataFields = {}
        /\ (pPc = "done" /\ ~ Truthy(pUrl)) =>
            /\ pResponse.status = 200 /\ ~ pResponse.success
            /\ DOMAIN pResponse \cap MetadataFields = {}
            /\ pGot = NotRun
        /\ pPc = "fetch" => Truthy(pUrl))
  /\ [][pResponse # NotRun => pResponse' = pResponse]_vars

\* C11 witness: the vendor answered with an empty product list and the request
\* got the generic failure.
C11_Witness ==
  /\ pPc = "done" /\ pStrategy = "parseWB"
  /\ pGot.t = "body" /\ pGot.products = <<>>
  /\ pResponse = Failure("ParseFailed")

\* The decimal numeral of a natural number, digit by digit from the left.
RECURSIVE Numeral(_)
Numeral(n) ==
  IF n < 10 THEN <<CHOOSE d \in {"0","1","2","3","4","5","6","7","8","9"} : HexVal(d) = n>>
  ELSE Numeral(n \div 10) \o Numeral(n % 10)

\* C14: for a vendor product whose salePriceU is a non-negative multiple of
\* 100, parseWB gives the price salePriceU / 100 followed by a space and the
\* rouble sign; 150000 gives 1500 and the sign.
C14_PriceInRoubles ==
  (/\ pPc = "done" /\ pStrategy = "parseWB"
   /\ pGot.t = "body" /\ pGot.products # <<>>
   /\ pGot.products[1].salePriceU % 100 = 0)
    => /\ pResponse.success
       /\ pResponse.price = JStr(Numeral(pGot.products[1].salePriceU \div 100) \o <<" ", Rouble>>)
       /\ pGot.products[1].salePriceU = 150000
            => pResponse.price = JStr(<<"1","5","0","0"," ",Rouble>>)

\* C14 witness: the price of the example, 150000 minor units, was rendered.
C14_Witness ==
  /\ pPc = "done" /\ pStrategy = "parseWB" /\ pGot.t = "body" /\ pGot.products # <<>>
  /\ pGot.products[1].salePriceU = 150000
  /\ pResponse.success

(***************************************************************************)
(* Claims about the request handlers (Spec)                                *)
(***************************************************************************)
Succeeded(r) == req[r].pc = "done" /\ req[r].resp.success

\* C1: of the reserve requests that distinct users send for the same item, in
\* any interleaving, at most one is answered success:true.
C1_SingleWinner ==
  \A r1, r2 \in Reqs :
    (/\ r1 # r2
     /\ req[r1].op = "reserve" /\ req[r2].op = "reserve"
     /\ req[r1].arg = req[r2].arg
     /\ req[r1].user # req[r2].user)
    => ~ (Succeeded(r1) /\ Succeeded(r2))

\* C2: once the reservation fields of an item are set no step writes them
\* again: they keep the value of the first claimant.
C2_WrittenOnce ==
  [][\A k \in 1..Len(items) :
       items[k].reserved_by # JNull =>
         /\ items'[k].reserved_by = items[k].reserved_by
         /\ items'[k].reserved_name = items[k].reserved_name
         /\ items'[k].reserved_at = items[k].reserved_at]_vars

\* The reserve request of slot r has a valid session and names no item, an item
\* that was reserved when the request started, or an item the store does not
\* hold when it is asked for it.
Refusable(r) ==
  /\ req[r].op = "reserve" /\ Truthy(req[r].user)
  /\ \/ req[r].atStart \in {"missing", "reserved"}
     \/ req[r].atLookup = "nonexistent"

\* C3: such a request sends no PATCH, changes no record, and the answer it gets
\* is success:false.
C3_RefusedReserve ==
  \A r \in Reqs :
    Refusable(r) =>
      /\ req[r].pc # "reserve_patch"
      /\ req[r].writes = 0
      /\ req[r].pc = "done" => (req[r].resp.status = 200 /\ ~ req[r].resp.success)

\* C3 witness: a reserve request for an item that was reserved when it started
\* has been answered.
C3_Witness ==
  \E r \in Reqs :
    /\ req[r].op = "reserve" /\ Truthy(req[r].user)
    /\ req[r].atStart = "reserved" /\ req[r].atLookup = "reserved"
    /\ req[r].pc = "done" /\ req[r].resp = Failure("ReservedOrMissing")

\* C4: a request of any of the four operations whose initData does not verify
\* is answered 401 with success:false, and no call to the store and no fetch is
\* made for it.
C4_UnverifiedRejected ==
  \A r \in Reqs :
    (req[r].op # "none" /\ ~ Truthy(VerifiedUser[req[r].token])) =>
      /\ req[r].pc = "done"
      /\ req[r].resp = Unauthorized
      /\ req[r].calls = 0 /\ req[r].fetches = 0 /\ req[r].writes = 0

\* C4 witness: a parse request with a forged token and a list request without
\* initData have both been turned away.
C4_Witness ==
  \E r1, r2 \in Reqs :
    /\ req[r1].op = "parse" /\ req[r1].token = "Forged" /\ Truthy(req[r1].arg)
    /\ req[r2].op = "list" /\ req[r2].token = "None"
    /\ req[r1].resp = Unauthorized /\ req[r2].resp = Unauthorized

\* The add request of slot r, with a valid session, has been answered.
AddAnswered(r) == req[r].op = "add" /\ Truthy(req[r].user) /\ req[r].pc = "done"

\* C12: an add request whose caller has no wishlist when the store is asked is
\* answered 400 with success:false and creates neither an item nor a wishlist;
\* with a wishlist it creates exactly one item, in the step that serves its
\* POST, and is answered success:true.
C12_AddNeedsWishlist ==
  /\ [](\A r \in Reqs :
          AddAnswered(r) =>
            IF req[r].wl = 0
            THEN req[r].resp.status = 400 /\ ~ req[r].resp.success /\ req[r].writes = 0
            ELSE req[r].resp.status = 200 /\ req[r].resp.success /\ req[r].writes = 1)
  /\ [][\A r \in Reqs :
          (req'[r].op = "add" /\ req'[r] # req[r]) =>
            /\ wishlists' = wishlists
            /\ IF req'[r].writes = req[r].writes THEN items' = items
               ELSE /\ Len(items') = Len(items) + 1
                    /\ SubSeq(items', 1, Len(items)) = items
                    /\ req'[r].writes = req[r].writes + 1]_vars

\* C12 witness: one add request was answered 400 for want of a wishlist and
\* another created its item.
C12_Witness ==
  \E r1, r2 \in Reqs :
    /\ AddAnswered(r1) /\ req[r1].wl = 0 /\ req[r1].resp.status = 400
    /\ AddAnswered(r2) /\ req[r2].wl # 0 /\ req[r2].resp.success

\* C13: no item is reserved by the owner of the wishlist that holds it.
C13_NeverByOwner ==
  \A k \in 1..Len(items) : \A w \in 1..Len(wishlists) :
    wishlists[w].id = items[k].wishlist_id =>
      items[k].reserved_by # wishlists[w].owner_id

\* C15: a list, add or reserve request that meets a failed store call is in
\* the end answered, with a 5xx status.
C15_StoreFailureAnswered ==
  \A r \in Reqs :
    (req[r].pc = "rejected") ~> (req[r].pc = "done" /\ req[r].resp.status >= 500)

\* C16: no request issues more than two outbound calls (store calls and
\* fetches together); a handler awaits each call before it issues the next.
C16_AtMostTwoCalls == \A r \in Reqs : req[r].calls <= 2

\* C18: the store holds at most one wishlist per owner_id.
C18_OneWishlistPerOwner ==
  \A w1, w2 \in 1..Len(wishlists) :
    w1 # w2 => wishlists[w1].owner_id # wishlists[w2].owner_id

\* The wishlist of that id belongs to the user.
OwnedBy(wishlist_id, user) ==
  \E w \in 1..Len(wishlists) :
    wishlists[w].id = wishlist_id /\ wishlists[w].owner_id = GetProp(user, <<"i","d">>)

\* C19: a list request is answered with items of one wishlist only, a wishlist
\* of the caller; the item an add request creates goes into a wishlist of the
\* caller.
C19_OwnershipIsolation ==
  /\ [](\A r \in Reqs :
          (req[r].op = "list" /\ req[r].pc = "done" /\ req[r].resp.success) =>
            \A i \in 1..Len(req[r].resp.items) :
              /\ req[r].resp.items[i].wishlist_id = req[r].wl
              /\ OwnedBy(req[r].resp.items[i].wishlist_id, req[r].user))
  /\ [][\A r \in Reqs :
          (req[r].op = "add" /\ req'[r] # req[r] /\ Len(items') > Len(items)) =>
            OwnedBy(items'[Len(items')].wishlist_id, req[r].user)]_vars

\* C19 witness: while the store holds an item of user 1, the list request of
\* user 2 was answered with no item, and an add request created an item.
C19_Witness ==
  \E r1, r2 \in Reqs :
    /\ req[r1].op = "list" /\ req[r1].token = "B" /\ req[r1].pc = "done"
    /\ req[r1].resp.items = <<>> /\ items # <<>>
    /\ req[r2].op = "add" /\ req[r2].pc = "done" /\ req[r2].resp.success

====
